---- MODULE Spec2Model ----
(***************************************************************************)
(* Dance-a-mole: the event-driven game state machine of danceamole/main.py *)
(* (State, MoleState, handle, handle_in_game, handle_in_game_over) and the *)
(* events of danceamole/events.py.                                         *)
(*                                                                         *)
(* Time is counted in quarter seconds from game_start: 0.25 s is 1 unit,   *)
(* 3.5 s is 14 units, 2 s is 8 units and 13 s is 52 units.                 *)
(***************************************************************************)
EXTENDS Integers, Sequences, FiniteSets

(* ------------------------------ bounds -------------------------------- *)

\* The latest game_end, in quarter seconds, a round is constructed with.
MaxGameEnd == 36

\* The event queue holds at most this many events before the environment
\* stops appending.
MaxQueue == 2

\* random.random() * 13 takes the values 0, 7, ..., 7 * MaxDraw quarter seconds.
MaxDraw == 1

\* The player presses the buttons with the values 0..MaxButton.
MaxButton == 0

\* The moles 0..MaxRandomMole draw any of the modelled values of
\* random.random(); for the other moles random.random() returns 0.0.
MaxRandomMole == 0

\* time.time() is observed on a grid of ClockStride quarter seconds.
ClockStride == 4

(* -------------------------- program constants ------------------------- *)

GOING_DOWN_IN_SECONDS == 1

GOING_UP_IN_SECONDS == 1

LOOKING_AROUND_IN_SECONDS == 14

LINGERING_MIN_IN_SECONDS == 8

LINGERING_SPAN_IN_SECONDS == 52

QUARTERS_PER_SECOND == 4

NUMBER_OF_MOLES == 8

(* ------------------------------ events -------------------------------- *)

Button == {"CROSS", "UP", "CIRCLE", "RIGHT", "SQUARE", "DOWN", "TRIANGLE", "LEFT"}

ButtonValue ==
  [b \in Button |->
     CASE b = "CROSS" -> 0
       [] b = "UP" -> 1
       [] b = "CIRCLE" -> 2
       [] b = "RIGHT" -> 3
       [] b = "SQUARE" -> 4
       [] b = "DOWN" -> 5
       [] b = "TRIANGLE" -> 6
       [] b = "LEFT" -> 7]

Tick == [type |-> "Tick", button |-> "NONE"]

ReceivedQuit == [type |-> "ReceivedQuit", button |-> "NONE"]

GameOver == [type |-> "GameOver", button |-> "NONE"]

ButtonDown(b) == [type |-> "ButtonDown", button |-> b]

\* The buttons the player of the model presses.
PressedButtons == {b \in Button : ButtonValue[b] <= MaxButton}

EventUnion == {Tick, ReceivedQuit, GameOver} \cup {ButtonDown(b) : b \in PressedButtons}

\* The events the frame loop appends; a GameOver comes from a Tick only.
InputEvents == EventUnion \ {GameOver}

\* No event has been handled yet, or one was queued since the last handling.
NoEvent == [type |-> "NONE", button |-> "NONE"]

(* ------------------------------- state -------------------------------- *)

MoleAction == {"LINGERING_BENEATH", "GOING_UP", "LOOKING_AROUND", "GOING_DOWN", "DIZZYING_DOWN"}

Moles == 0 .. (NUMBER_OF_MOLES - 1)

MoleState(action, start, end) == [action |-> action, start |-> start, end |-> end]

\* A mapping that sends LEFT to the mole of CROSS.
BUTTON_TO_MOLE_Colliding ==
  [b \in Button |->
     CASE b = "CROSS" -> 0
       [] b = "UP" -> 1
       [] b = "CIRCLE" -> 2
       [] b = "RIGHT" -> 3
       [] b = "SQUARE" -> 4
       [] b = "DOWN" -> 5
       [] b = "TRIANGLE" -> 6
       [] b = "LEFT" -> 0]

BUTTON_TO_MOLE ==
  [b \in Button |->
     CASE b = "CROSS" -> 0
       [] b = "UP" -> 1
       [] b = "CIRCLE" -> 2
       [] b = "RIGHT" -> 3
       [] b = "SQUARE" -> 4
       [] b = "DOWN" -> 5
       [] b = "TRIANGLE" -> 6
       [] b = "LEFT" -> 7]

VARIABLES
  received_quit,    \* State.received_quit
  game_start,       \* State.game_start
  now,              \* State.now
  game_end,         \* State.game_end
  mole_states,      \* State.mole_states, indexed 0..7
  game_over,        \* State.game_over
  score,            \* State.score
  misses,           \* State.misses
  our_event_queue,  \* the list handle() consumes
  clock,            \* the last value time.time() returned to a Tick
  handled,          \* the event the last call of handle() consumed
  handled_in,       \* the mode that call ran in: "in_game" or "game_over"
  pc,               \* where main() stands in its frame loop, or how it left
  screen            \* the screen render() drew in this frame, "NONE" before

vars == <<received_quit, game_start, now, game_end, mole_states, game_over,
          score, misses, our_event_queue, clock, handled, handled_in, pc, screen>>

state_vars == <<received_quit, game_start, now, game_end, mole_states, game_over,
                score, misses>>

(* ----------------------- the clock and the dice ----------------------- *)

\* The last clock reading lies past every game_end.
MaxClock == MaxGameEnd + ClockStride

\* time.time() read by handle_in_game: never before the reading before it.
\* Only the Tick branch uses the reading, so only a Tick takes one.
ClockReadings(previous) == {c \in previous .. MaxClock : c % ClockStride = 0}

\* random.random() * 13, in quarter seconds.
RandomTimes13 == {d \in {7 * k : k \in 0 .. MaxDraw} : d < LINGERING_SPAN_IN_SECONDS}

\* int(x) of a number of seconds x given in quarter seconds, in quarter seconds.
IntOfSeconds(x) == (x \div QUARTERS_PER_SECOND) * QUARTERS_PER_SECOND

\* The values of random.random() * 13 a set of moles draws, one per mole.
RandomDraws(moles) ==
  {[i \in moles |-> IF i <= MaxRandomMole THEN r[i] ELSE 0] :
     r \in [{i \in moles : i <= MaxRandomMole} -> RandomTimes13]}

GameEnds == {0, MaxGameEnd}

(* ---------------------------- construction ---------------------------- *)

\* A construction that leaves out the 2 seconds every mole stays beneath.
InitWithoutMinimum ==
  /\ received_quit = FALSE
  /\ score = 0
  /\ misses = 0
  /\ game_start = 0
  /\ now = game_start
  /\ game_end \in {e \in GameEnds : game_start <= e}
  /\ \E r \in RandomDraws(Moles) :
       mole_states =
         [i \in Moles |->
            MoleState("LINGERING_BENEATH", game_start,
                      game_start + IntOfSeconds(r[i]))]
  /\ game_over = FALSE
  /\ our_event_queue = <<>>
  /\ clock = game_start
  /\ handled = NoEvent
  /\ handled_in = "NONE"
  /\ pc = "while"
  /\ screen = "NONE"

Init ==
  /\ received_quit = FALSE
  /\ score = 0
  /\ misses = 0
  /\ game_start = 0
  /\ now = game_start
  /\ game_end \in {e \in GameEnds : game_start <= e}
  /\ \E r \in RandomDraws(Moles) :
       mole_states =
         [i \in Moles |->
            MoleState("LINGERING_BENEATH", game_start,
                      game_start + LINGERING_MIN_IN_SECONDS + IntOfSeconds(r[i]))]
  /\ game_over = FALSE
  /\ our_event_queue = <<>>
  /\ clock = game_start
  /\ handled = NoEvent
  /\ handled_in = "NONE"
  /\ pc = "while"
  /\ screen = "NONE"

(* ---------------------------- the handlers ---------------------------- *)

\* The frame loop appends an input event or a Tick to the queue.
Enqueue ==
  /\ Len(our_event_queue) < MaxQueue
  /\ \E e \in InputEvents : our_event_queue' = Append(our_event_queue, e)
  /\ handled' = NoEvent
  /\ handled_in' = "NONE"
  /\ UNCHANGED <<state_vars, clock, pc, screen>>

\* A game-over handler that still lets a Tick move the clock and the moles.
HandleInGameOverStillTicking ==
  /\ game_over
  /\ Len(our_event_queue) # 0
  /\ LET event == Head(our_event_queue) IN
       /\ our_event_queue' = Tail(our_event_queue)
       /\ handled' = event
       /\ handled_in' = "game_over"
       /\ received_quit' = IF event.type = "ReceivedQuit" THEN TRUE ELSE received_quit
       /\ IF event.type = "Tick"
          THEN \E reading \in ClockReadings(clock) :
                 /\ clock' = reading
                 /\ now' = reading
                 /\ mole_states' =
                      [i \in Moles |->
                         IF reading > mole_states[i].end
                         THEN [action |-> "LINGERING_BENEATH", start |-> reading,
                               end |-> reading + LINGERING_MIN_IN_SECONDS]
                         ELSE mole_states[i]]
          ELSE UNCHANGED <<now, clock, mole_states>>
  /\ UNCHANGED <<game_start, game_end, game_over, score, misses, pc, screen>>

\* A game-over handler that stores whether the event is a ReceivedQuit.
HandleInGameOverStoringTest ==
  /\ game_over
  /\ Len(our_event_queue) # 0
  /\ LET event == Head(our_event_queue) IN
       /\ our_event_queue' = Tail(our_event_queue)
       /\ handled' = event
       /\ handled_in' = "game_over"
       /\ received_quit' = (event.type = "ReceivedQuit")
  /\ UNCHANGED <<game_start, now, game_end, mole_states, game_over, score, misses, clock, pc, screen>>

\* A game-over handler that still lets a ButtonDown hit.
HandleInGameOverStillHitting ==
  /\ game_over
  /\ Len(our_event_queue) # 0
  /\ LET event == Head(our_event_queue) IN
       /\ our_event_queue' = Tail(our_event_queue)
       /\ handled' = event
       /\ handled_in' = "game_over"
       /\ received_quit' = IF event.type = "ReceivedQuit" THEN TRUE ELSE received_quit
       /\ IF /\ event.type = "ButtonDown"
             /\ mole_states[BUTTON_TO_MOLE[event.button]].action = "LOOKING_AROUND"
          THEN /\ mole_states' =
                    [mole_states EXCEPT ![BUTTON_TO_MOLE[event.button]] =
                       MoleState("DIZZYING_DOWN", now, now + GOING_DOWN_IN_SECONDS)]
               /\ score' = score + 1
          ELSE UNCHANGED <<mole_states, score>>
  /\ UNCHANGED <<game_start, now, game_end, game_over, misses, clock, pc, screen>>

HandleInGameOver ==
  /\ game_over
  /\ Len(our_event_queue) # 0
  /\ LET event == Head(our_event_queue) IN
       /\ our_event_queue' = Tail(our_event_queue)
       /\ handled' = event
       /\ handled_in' = "game_over"
       /\ received_quit' = IF event.type = "ReceivedQuit" THEN TRUE ELSE received_quit
  /\ UNCHANGED <<game_start, now, game_end, mole_states, game_over, score, misses, clock, pc, screen>>

\* The moles a Tick read at reading moves on, and those it sends beneath.
Expired(reading) == {i \in Moles : reading > mole_states[i].end}

GoingBeneath(reading) ==
  {i \in Expired(reading) : mole_states[i].action \in {"GOING_DOWN", "DIZZYING_DOWN"}}

\* The loop body with now >= mole_state.end for now > mole_state.end.
TickMoleAtEnd(mole_state, reading, r) ==
  IF reading >= mole_state.end
  THEN CASE mole_state.action = "LINGERING_BENEATH" ->
              MoleState("GOING_UP", reading, reading + GOING_UP_IN_SECONDS)
         [] mole_state.action = "GOING_UP" ->
              MoleState("LOOKING_AROUND", reading, reading + LOOKING_AROUND_IN_SECONDS)
         [] mole_state.action = "LOOKING_AROUND" ->
              MoleState("GOING_DOWN", reading, reading + GOING_DOWN_IN_SECONDS)
         [] mole_state.action \in {"GOING_DOWN", "DIZZYING_DOWN"} ->
              MoleState("LINGERING_BENEATH", reading,
                        reading + LINGERING_MIN_IN_SECONDS + r)
  ELSE mole_state

\* The loop body that sends a mole beneath for random.random() * 13 seconds
\* only, without the 2 seconds.
TickMoleShortLinger(mole_state, reading, r) ==
  IF reading > mole_state.end
  THEN CASE mole_state.action = "LINGERING_BENEATH" ->
              MoleState("GOING_UP", reading, reading + GOING_UP_IN_SECONDS)
         [] mole_state.action = "GOING_UP" ->
              MoleState("LOOKING_AROUND", reading, reading + LOOKING_AROUND_IN_SECONDS)
         [] mole_state.action = "LOOKING_AROUND" ->
              MoleState("GOING_DOWN", reading, reading + GOING_DOWN_IN_SECONDS)
         [] mole_state.action \in {"GOING_DOWN", "DIZZYING_DOWN"} ->
              MoleState("LINGERING_BENEATH", reading, reading + r)
  ELSE mole_state

\* The loop body that times the next action from the end of the last one
\* instead of from now.
TickMoleOnSchedule(mole_state, reading, r) ==
  IF reading > mole_state.end
  THEN CASE mole_state.action = "LINGERING_BENEATH" ->
              MoleState("GOING_UP", mole_state.end,
                        mole_state.end + GOING_UP_IN_SECONDS)
         [] mole_state.action = "GOING_UP" ->
              MoleState("LOOKING_AROUND", mole_state.end,
                        mole_state.end + LOOKING_AROUND_IN_SECONDS)
         [] mole_state.action = "LOOKING_AROUND" ->
              MoleState("GOING_DOWN", mole_state.end,
                        mole_state.end + GOING_DOWN_IN_SECONDS)
         [] mole_state.action \in {"GOING_DOWN", "DIZZYING_DOWN"} ->
              MoleState("LINGERING_BENEATH", mole_state.end,
                        mole_state.end + LINGERING_MIN_IN_SECONDS + r)
  ELSE mole_state

\* One pass of the loop body over one mole; r is its random.random() * 13.
TickMole(mole_state, reading, r) ==
  IF reading > mole_state.end
  THEN CASE mole_state.action = "LINGERING_BENEATH" ->
              MoleState("GOING_UP", reading, reading + GOING_UP_IN_SECONDS)
         [] mole_state.action = "GOING_UP" ->
              MoleState("LOOKING_AROUND", reading, reading + LOOKING_AROUND_IN_SECONDS)
         [] mole_state.action = "LOOKING_AROUND" ->
              MoleState("GOING_DOWN", reading, reading + GOING_DOWN_IN_SECONDS)
         [] mole_state.action \in {"GOING_DOWN", "DIZZYING_DOWN"} ->
              MoleState("LINGERING_BENEATH", reading,
                        reading + LINGERING_MIN_IN_SECONDS + r)
  ELSE mole_state

\* misses += 1 once after the loop instead of once per mole.
TickMissesOncePerTick(reading) ==
  IF \E i \in Expired(reading) : mole_states[i].action = "LOOKING_AROUND" THEN 1 ELSE 0

\* misses += 1 for every mole that leaves the surface, hit or not.
TickMissesAlsoDizzy(reading) ==
  Cardinality({i \in Expired(reading) :
                 mole_states[i].action \in {"LOOKING_AROUND", "DIZZYING_DOWN"}})

\* misses += 1 in the branch of GOING_UP instead of LOOKING_AROUND.
TickMissesOnExposure(reading) ==
  Cardinality({i \in Expired(reading) : mole_states[i].action = "GOING_UP"})

\* The number of times the loop runs misses += 1.
TickMisses(reading) ==
  Cardinality({i \in Expired(reading) : mole_states[i].action = "LOOKING_AROUND"})

\* A hit that sets start and end the wrong way round.
HitMoleSwapped(mole_state) ==
  MoleState("DIZZYING_DOWN", now + GOING_DOWN_IN_SECONDS, now)

\* A hit that keeps the start of the exposure.
HitMoleKeepingStart(mole_state) ==
  MoleState("DIZZYING_DOWN", mole_state.start, now + GOING_DOWN_IN_SECONDS)

HitMole(mole_state) ==
  MoleState("DIZZYING_DOWN", now, now + GOING_DOWN_IN_SECONDS)

\* A ReceivedQuit that drops the events queued behind it.
HandleReceivedQuitClearing ==
  /\ ~game_over
  /\ Len(our_event_queue) # 0
  /\ Head(our_event_queue).type = "ReceivedQuit"
  /\ our_event_queue' = <<>>
  /\ handled' = Head(our_event_queue)
  /\ handled_in' = "in_game"
  /\ received_quit' = TRUE
  /\ UNCHANGED <<game_start, now, game_end, mole_states, game_over, score, misses, clock, pc, screen>>

HandleReceivedQuit ==
  /\ ~game_over
  /\ Len(our_event_queue) # 0
  /\ Head(our_event_queue).type = "ReceivedQuit"
  /\ our_event_queue' = Tail(our_event_queue)
  /\ handled' = Head(our_event_queue)
  /\ handled_in' = "in_game"
  /\ received_quit' = TRUE
  /\ UNCHANGED <<game_start, now, game_end, mole_states, game_over, score, misses, clock, pc, screen>>

\* A GameOver handler that puts the GameOver back at the tail of the queue.
HandleGameOverRequeueing ==
  /\ ~game_over
  /\ Len(our_event_queue) # 0
  /\ Head(our_event_queue).type = "GameOver"
  /\ our_event_queue' = Append(Tail(our_event_queue), GameOver)
  /\ handled' = Head(our_event_queue)
  /\ handled_in' = "in_game"
  /\ game_over' = TRUE
  /\ UNCHANGED <<received_quit, game_start, now, game_end, mole_states, score, misses, clock, pc, screen>>

\* A GameOver handler that pops the event and leaves game_over alone.
HandleGameOverIgnoring ==
  /\ ~game_over
  /\ Len(our_event_queue) # 0
  /\ Head(our_event_queue).type = "GameOver"
  /\ our_event_queue' = Tail(our_event_queue)
  /\ handled' = Head(our_event_queue)
  /\ handled_in' = "in_game"
  /\ UNCHANGED <<received_quit, game_start, now, game_end, mole_states, game_over, score, misses, clock, pc, screen>>

HandleGameOver ==
  /\ ~game_over
  /\ Len(our_event_queue) # 0
  /\ Head(our_event_queue).type = "GameOver"
  /\ our_event_queue' = Tail(our_event_queue)
  /\ handled' = Head(our_event_queue)
  /\ handled_in' = "in_game"
  /\ game_over' = TRUE
  /\ UNCHANGED <<received_quit, game_start, now, game_end, mole_states, score, misses, clock, pc, screen>>

\* A ButtonDown handled after state.now = now was moved above the branches.
HandleButtonDownSettingNow ==
  /\ ~game_over
  /\ Len(our_event_queue) # 0
  /\ Head(our_event_queue).type = "ButtonDown"
  /\ our_event_queue' = Tail(our_event_queue)
  /\ handled' = Head(our_event_queue)
  /\ handled_in' = "in_game"
  /\ \E reading \in ClockReadings(clock) :
       /\ clock' = reading
       /\ now' = reading
       /\ LET mole_index == BUTTON_TO_MOLE[Head(our_event_queue).button] IN
            IF mole_states[mole_index].action = "LOOKING_AROUND"
            THEN /\ mole_states' =
                      [mole_states EXCEPT ![mole_index] =
                         MoleState("DIZZYING_DOWN", reading,
                                   reading + GOING_DOWN_IN_SECONDS)]
                 /\ score' = score + 1
            ELSE UNCHANGED <<mole_states, score>>
  /\ UNCHANGED <<received_quit, game_start, game_end, game_over, misses, pc, screen>>

\* A ButtonDown that dizzies whatever mole it addresses.
HandleButtonDownAnyAction ==
  /\ ~game_over
  /\ Len(our_event_queue) # 0
  /\ Head(our_event_queue).type = "ButtonDown"
  /\ our_event_queue' = Tail(our_event_queue)
  /\ handled' = Head(our_event_queue)
  /\ handled_in' = "in_game"
  /\ LET mole_index == BUTTON_TO_MOLE[Head(our_event_queue).button] IN
       /\ mole_states' =
            [mole_states EXCEPT ![mole_index] =
               MoleState("DIZZYING_DOWN", now, now + GOING_DOWN_IN_SECONDS)]
       /\ score' = score + 1
  /\ UNCHANGED <<received_quit, game_start, now, game_end, game_over, misses, clock, pc, screen>>

HandleButtonDown ==
  /\ ~game_over
  /\ Len(our_event_queue) # 0
  /\ Head(our_event_queue).type = "ButtonDown"
  /\ our_event_queue' = Tail(our_event_queue)
  /\ handled' = Head(our_event_queue)
  /\ handled_in' = "in_game"
  /\ LET mole_index == BUTTON_TO_MOLE[Head(our_event_queue).button] IN
       IF mole_states[mole_index].action = "LOOKING_AROUND"
       THEN /\ mole_states' =
                 [mole_states EXCEPT ![mole_index] = HitMole(mole_states[mole_index])]
            /\ score' = score + 1
       ELSE UNCHANGED <<mole_states, score>>
  /\ UNCHANGED <<received_quit, game_start, now, game_end, game_over, misses, clock, pc, screen>>

\* A Tick past game_end that sets game_over itself instead of queueing a
\* GameOver.
HandleTickEndingRound ==
  /\ ~game_over
  /\ Len(our_event_queue) # 0
  /\ Head(our_event_queue).type = "Tick"
  /\ handled' = Head(our_event_queue)
  /\ handled_in' = "in_game"
  /\ our_event_queue' = Tail(our_event_queue)
  /\ \E reading \in ClockReadings(clock) :
       /\ clock' = reading
       /\ now' = reading
       /\ IF reading > game_end
          THEN /\ game_over' = TRUE
               /\ UNCHANGED <<mole_states, misses>>
          ELSE /\ game_over' = game_over
               /\ \E r \in RandomDraws(GoingBeneath(reading)) :
                    mole_states' =
                      [i \in Moles |->
                         TickMole(mole_states[i], reading,
                                  IF i \in GoingBeneath(reading) THEN r[i] ELSE 0)]
               /\ misses' = misses + TickMisses(reading)
  /\ UNCHANGED <<received_quit, game_start, game_end, score, pc, screen>>

\* A Tick past game_end that still runs the loop over the moles.
HandleTickAlwaysUpdating ==
  /\ ~game_over
  /\ Len(our_event_queue) # 0
  /\ Head(our_event_queue).type = "Tick"
  /\ handled' = Head(our_event_queue)
  /\ handled_in' = "in_game"
  /\ \E reading \in ClockReadings(clock) :
       /\ clock' = reading
       /\ now' = reading
       /\ our_event_queue' =
            IF reading > game_end
            THEN Append(Tail(our_event_queue), GameOver)
            ELSE Tail(our_event_queue)
       /\ \E r \in RandomDraws(GoingBeneath(reading)) :
            mole_states' =
              [i \in Moles |->
                 TickMole(mole_states[i], reading,
                          IF i \in GoingBeneath(reading) THEN r[i] ELSE 0)]
       /\ misses' = misses + TickMisses(reading)
  /\ UNCHANGED <<received_quit, game_start, game_end, game_over, score, pc, screen>>

HandleTick ==
  /\ ~game_over
  /\ Len(our_event_queue) # 0
  /\ Head(our_event_queue).type = "Tick"
  /\ handled' = Head(our_event_queue)
  /\ handled_in' = "in_game"
  /\ \E reading \in ClockReadings(clock) :
       /\ clock' = reading
       /\ now' = reading
       /\ IF reading > game_end
          THEN /\ our_event_queue' = Append(Tail(our_event_queue), GameOver)
               /\ UNCHANGED <<mole_states, misses>>
          ELSE /\ our_event_queue' = Tail(our_event_queue)
               /\ \E r \in RandomDraws(GoingBeneath(reading)) :
                    mole_states' =
                      [i \in Moles |->
                         TickMole(mole_states[i], reading,
                                  IF i \in GoingBeneath(reading) THEN r[i] ELSE 0)]
               /\ misses' = misses + TickMisses(reading)
  /\ UNCHANGED <<received_quit, game_start, game_end, game_over, score, pc, screen>>

HandleInGame ==
  \/ HandleReceivedQuit
  \/ HandleGameOver
  \/ HandleButtonDown
  \/ HandleTick

Handle ==
  \/ HandleInGameOver
  \/ HandleInGame

\* handle() called on an empty queue: both handlers return at once.
HandleEmpty ==
  /\ Len(our_event_queue) = 0
  /\ handled' = NoEvent
  /\ handled_in' = IF game_over THEN "game_over" ELSE "in_game"
  /\ UNCHANGED <<state_vars, our_event_queue, clock, pc, screen>>

Next ==
  \/ Enqueue
  \/ Handle
  \/ HandleEmpty

Spec == Init /\ [][Next]_vars

(* --------------------------- the frame loop --------------------------- *)

\* The events one pygame.event.get() is translated to, in their order.
FrameInputs == UNION {[1 .. n -> InputEvents \ {Tick}] : n \in 0 .. MaxQueue}

\* The number of images of each action, and of the hourglass.
ImageCount ==
  [action \in MoleAction |->
     CASE action = "LINGERING_BENEATH" -> 1
       [] action = "GOING_UP" -> 6
       [] action = "LOOKING_AROUND" -> 2
       [] action = "GOING_DOWN" -> 6
       [] action = "DIZZYING_DOWN" -> 6]

HOURGLASS_IMAGES == 5

\* int(numerator / denominator * count) for a denominator > 0: int() cuts
\* towards zero.
IntOfFraction(numerator, denominator, count) ==
  IF numerator >= 0
  THEN (numerator * count) \div denominator
  ELSE 0 - (((0 - numerator) * count) \div denominator)

Min(a, b) == IF a <= b THEN a ELSE b

\* The index without the min(): int(fraction * count) alone.
ClampedStepUnclamped(numerator, denominator, count) ==
  IntOfFraction(numerator, denominator, count)

\* min(int(fraction * count), count - 1)
ClampedStep(numerator, denominator, count) ==
  Min(IntOfFraction(numerator, denominator, count), count - 1)

\* step of render_game for the mole i.
MoleStep(i) ==
  ClampedStep(now - mole_states[i].start,
              mole_states[i].end - mole_states[i].start,
              ImageCount[mole_states[i].action])

\* hourglass_step of render_game.
HourglassStep ==
  ClampedStep(now - game_start, game_end - game_start, HOURGLASS_IMAGES)

\* A render() that looks at game_over first.
RenderedScreenGameOverFirst ==
  IF game_over THEN "game_over"
  ELSE IF received_quit THEN "quitting"
  ELSE "game"

\* The screen render() draws.
RenderedScreen ==
  IF received_quit THEN "quitting"
  ELSE IF game_over THEN "game_over"
  ELSE "game"

\* main() constructs the round with game_end = now + game_duration;
\* MaxGameEnd stands for game_duration.
MainInit ==
  /\ Init
  /\ game_end = game_start + MaxGameEnd

\* The top of a frame that appends the Tick before the input events.
CollectInputTickFirst ==
  /\ pc = "while"
  /\ ~received_quit
  /\ \E inputs \in FrameInputs :
       our_event_queue' = our_event_queue \o <<Tick>> \o inputs
  /\ pc' = "drain"
  /\ screen' = "NONE"
  /\ handled' = NoEvent
  /\ handled_in' = "NONE"
  /\ UNCHANGED <<state_vars, clock>>

\* The top of a frame without the test of received_quit.
CollectInputRegardless ==
  /\ pc = "while"
  /\ \E inputs \in FrameInputs :
       our_event_queue' = our_event_queue \o inputs \o <<Tick>>
  /\ pc' = "drain"
  /\ screen' = "NONE"
  /\ handled' = NoEvent
  /\ handled_in' = "NONE"
  /\ UNCHANGED <<state_vars, clock>>

\* The top of a frame: translate the input events and append the Tick.
CollectInput ==
  /\ pc = "while"
  /\ ~received_quit
  /\ \E inputs \in FrameInputs :
       our_event_queue' = our_event_queue \o inputs \o <<Tick>>
  /\ pc' = "drain"
  /\ screen' = "NONE"
  /\ handled' = NoEvent
  /\ handled_in' = "NONE"
  /\ UNCHANGED <<state_vars, clock>>

\* while not state.received_quit: leave the loop.
ExitLoop ==
  /\ pc = "while"
  /\ received_quit
  /\ pc' = "done"
  /\ UNCHANGED <<state_vars, our_event_queue, clock, handled, handled_in, screen>>

\* while len(our_event_queue) > 0: handle(...)
Drain ==
  /\ pc = "drain"
  /\ Len(our_event_queue) > 0
  /\ Handle

\* A drain that handles one event per frame only.
DrainDoneAfterOne ==
  /\ pc = "drain"
  /\ \/ Len(our_event_queue) = 0
     \/ handled # NoEvent
  /\ pc' = "render"
  /\ UNCHANGED <<state_vars, our_event_queue, clock, handled, handled_in, screen>>

\* The queue is empty: go on to render().
DrainDone ==
  /\ pc = "drain"
  /\ Len(our_event_queue) = 0
  /\ pc' = "render"
  /\ UNCHANGED <<state_vars, our_event_queue, clock, handled, handled_in, screen>>

\* render() and pygame.display.flip(); render_game divides by
\* game_end - game_start, and the ZeroDivisionError of a round without
\* duration leaves main() through its finally clause.
Render ==
  /\ pc = "render"
  /\ IF RenderedScreen = "game" /\ game_end - game_start = 0
     THEN /\ pc' = "raised"
          /\ screen' = screen
     ELSE /\ screen' = RenderedScreen
          /\ pc' = "while"
  /\ UNCHANGED <<state_vars, our_event_queue, clock, handled, handled_in>>

MainNext ==
  \/ CollectInput
  \/ ExitLoop
  \/ Drain
  \/ DrainDone
  \/ Render

MainSpec == MainInit /\ [][MainNext]_vars

\* The frame loop whose drain calls handle() again as long as the queue
\* holds an event.
FairMainSpec == MainSpec /\ WF_vars(Drain)

\* The frame loop run on any State the constructor accepts
\* (game_start <= game_end).
RoundSpec == Init /\ [][MainNext]_vars

TypeOK ==
  /\ received_quit \in BOOLEAN
  /\ game_over \in BOOLEAN
  /\ score \in Nat
  /\ misses \in Nat
  /\ now \in 0 .. MaxClock
  /\ clock \in 0 .. MaxClock
  /\ our_event_queue \in Seq(EventUnion)
  /\ \A i \in Moles : mole_states[i].action \in MoleAction
  /\ pc \in {"while", "drain", "render", "done", "raised"}
  /\ screen \in {"NONE", "quitting", "game_over", "game"}

(* ------------------------- steps of handle() -------------------------- *)

\* This step is a call of handle() in the given mode ("in_game" or
\* "game_over") that consumes an event of the given type.
Handling(type, mode) ==
  /\ our_event_queue # <<>>
  /\ Head(our_event_queue).type = type
  /\ handled' = Head(our_event_queue)
  /\ handled_in' = mode

\* This step is a call of handle() that consumes an event.
HandlingAny ==
  /\ our_event_queue # <<>>
  /\ handled' = Head(our_event_queue)
  /\ handled_in' \in {"in_game", "game_over"}

\* The mole the event at the front of the queue addresses.
FrontMole == BUTTON_TO_MOLE[Head(our_event_queue).button]

\* The mole the last handled ButtonDown addressed.
HandledMole == BUTTON_TO_MOLE[handled.button]

(* ------------------------------- claims ------------------------------- *)

\* C1: handling ButtonDown(b) while game_over is false and the mole mapped to
\* b is LOOKING_AROUND adds exactly 1 to score, makes that mole DIZZYING_DOWN
\* with start = state.now and end = state.now + 0.25 s (1 quarter second), and
\* leaves misses, state.now, both flags and the other seven moles unchanged.
C1_HitScores ==
  [][(/\ Handling("ButtonDown", "in_game")
      /\ ~game_over
      /\ mole_states[FrontMole].action = "LOOKING_AROUND")
     => (/\ score' = score + 1
         /\ mole_states'[FrontMole] =
              [action |-> "DIZZYING_DOWN", start |-> now, end |-> now + 1]
         /\ \A i \in Moles \ {FrontMole} : mole_states'[i] = mole_states[i]
         /\ Cardinality(Moles \ {FrontMole}) = 7
         /\ UNCHANGED <<misses, now, received_quit, game_over>>)]_vars

\* A ButtonDown was just handled in the game, its mole was exposed before the
\* current reading of the clock and is dizzy since that reading, and it is the
\* only hit so far.
C1_Witness ==
  /\ handled.type = "ButtonDown"
  /\ handled_in = "in_game"
  /\ mole_states[HandledMole] =
       [action |-> "DIZZYING_DOWN", start |-> now, end |-> now + 1]
  /\ score = 1
  /\ \E i \in Moles \ {HandledMole} :
       mole_states[i].action = "LOOKING_AROUND" /\ mole_states[i].start < now

\* C2: handling ButtonDown(b) when the mole mapped to b is not LOOKING_AROUND
\* changes neither score, nor misses, nor that mole's action, start or end; a
\* second ButtonDown on a mole already hit does not score again.
C2_MissedHitIgnored ==
  [][(/\ \/ Handling("ButtonDown", "in_game")
         \/ Handling("ButtonDown", "game_over")
      /\ mole_states[FrontMole].action # "LOOKING_AROUND")
     => (/\ UNCHANGED <<score, misses>>
         /\ mole_states'[FrontMole] = mole_states[FrontMole])]_vars

\* A ButtonDown was just handled in the game for a mole that had been hit at
\* an earlier reading of the clock and is still dizzy.
C2_Witness ==
  /\ handled.type = "ButtonDown"
  /\ handled_in = "in_game"
  /\ mole_states[HandledMole].action = "DIZZYING_DOWN"
  /\ mole_states[HandledMole].start < now
  /\ score >= 1

\* The moles a Tick that reads the clock at reading finds expired while
\* LOOKING_AROUND.
ExpiredLooking(reading) ==
  {i \in Moles : /\ mole_states[i].action = "LOOKING_AROUND"
                 /\ reading > mole_states[i].end}

\* C3: a Tick handled with game_over false and now <= game_end turns every
\* mole that is LOOKING_AROUND with now > end into GOING_DOWN with start = now
\* and end = now + 0.25 s, and adds to misses exactly the number of such moles.
C3_ExpiryMisses ==
  [][(/\ Handling("Tick", "in_game")
      /\ ~game_over
      /\ clock' <= game_end)
     => (/\ \A i \in ExpiredLooking(clock') :
              mole_states'[i] =
                [action |-> "GOING_DOWN", start |-> clock', end |-> clock' + 1]
         /\ misses' = misses + Cardinality(ExpiredLooking(clock')))]_vars

\* A Tick was just handled in the game that sent at least two moles down
\* unhit, while another mole had been hit before.
C3_Witness ==
  /\ handled.type = "Tick"
  /\ handled_in = "in_game"
  /\ Cardinality({i \in Moles : mole_states[i] =
                    [action |-> "GOING_DOWN", start |-> now, end |-> now + 1]}) >= 2
  /\ misses >= 2
  /\ misses < 8
  /\ score >= 1

\* C4: a mole hit while LOOKING_AROUND causes no miss for that exposure: from
\* DIZZYING_DOWN its only next action is LINGERING_BENEATH, the hit leaves
\* misses alone, and every step adds to misses exactly the number of moles
\* that step takes from LOOKING_AROUND to GOING_DOWN.
C4_HitNeverMisses ==
  [][/\ \A i \in Moles :
          mole_states[i].action = "DIZZYING_DOWN"
          => mole_states'[i].action \in {"DIZZYING_DOWN", "LINGERING_BENEATH"}
     /\ \A i \in Moles :
          (mole_states[i].action # "DIZZYING_DOWN"
           /\ mole_states'[i].action = "DIZZYING_DOWN")
          => misses' = misses
     /\ misses' = misses
          + Cardinality({i \in Moles :
                           /\ mole_states[i].action = "LOOKING_AROUND"
                           /\ mole_states'[i].action = "GOING_DOWN"})]_vars

\* A Tick just sent a mole beneath although no mole was ever missed: the mole
\* came from DIZZYING_DOWN.
C4_Witness ==
  /\ handled.type = "Tick"
  /\ handled_in = "in_game"
  /\ misses = 0
  /\ score >= 1
  /\ \E i \in Moles :
       /\ mole_states[i].action = "LINGERING_BENEATH"
       /\ mole_states[i].start = now
       /\ now > game_start

\* C5: once game_over is true, handling any event other than ReceivedQuit
\* changes no field of the state and appends nothing to the queue; handling
\* ReceivedQuit sets received_quit and changes nothing else.
C5_GameOverFreezes ==
  [][(game_over /\ HandlingAny)
     => (/\ our_event_queue' = Tail(our_event_queue)
         /\ UNCHANGED <<score, misses, now, mole_states, game_over,
                        game_start, game_end>>
         /\ IF Head(our_event_queue).type = "ReceivedQuit"
            THEN received_quit' = TRUE
            ELSE received_quit' = received_quit)]_vars

\* After the game is over a ButtonDown was handled whose mole is
\* LOOKING_AROUND, and nothing was scored in the round.
C5_Witness ==
  /\ game_over
  /\ handled.type = "ButtonDown"
  /\ handled_in = "game_over"
  /\ mole_states[HandledMole].action = "LOOKING_AROUND"
  /\ score = 0
  /\ ~received_quit

\* C6: a Tick handled with game_over false and a clock reading past game_end
\* sets state.now to the reading, appends exactly one GameOver at the tail of
\* the queue and updates no mole and not misses, even for moles with
\* now > end; handling a GameOver leaves game_over true.
C6_RoundEnd ==
  [][/\ (/\ Handling("Tick", "in_game")
         /\ ~game_over
         /\ clock' > game_end)
        => (/\ now' = clock'
            /\ our_event_queue' = Append(Tail(our_event_queue), GameOver)
            /\ UNCHANGED <<mole_states, misses, score, game_over, received_quit>>)
     /\ (\/ Handling("GameOver", "in_game")
         \/ Handling("GameOver", "game_over"))
        => game_over']_vars

\* A Tick just read the clock past game_end with an event queued behind it:
\* the GameOver is at the tail, behind that event, and a mole that expired
\* while LOOKING_AROUND is still LOOKING_AROUND.
C6_Witness ==
  /\ handled.type = "Tick"
  /\ handled_in = "in_game"
  /\ now > game_end
  /\ ~game_over
  /\ Len(our_event_queue) = 2
  /\ our_event_queue[1].type = "ButtonDown"
  /\ our_event_queue[2] = GameOver
  /\ \E i \in Moles :
       /\ mole_states[i].action = "LOOKING_AROUND"
       /\ now > mole_states[i].end
  /\ misses = 0

\* The action that follows an action on expiry.
NextOnExpiry(action) ==
  CASE action = "LINGERING_BENEATH" -> "GOING_UP"
    [] action = "GOING_UP" -> "LOOKING_AROUND"
    [] action = "LOOKING_AROUND" -> "GOING_DOWN"
    [] action = "GOING_DOWN" -> "LINGERING_BENEATH"
    [] action = "DIZZYING_DOWN" -> "LINGERING_BENEATH"

\* C7: on a Tick handled with game_over false and now <= game_end, each mole
\* with now > end advances exactly one step of the cycle, however far now is
\* past end, and each mole with now <= end (now = end included) keeps its
\* action, start and end.
C7_OneStepPerTick ==
  [][(/\ Handling("Tick", "in_game")
      /\ ~game_over
      /\ clock' <= game_end)
     => \A i \in Moles :
          IF clock' > mole_states[i].end
          THEN /\ mole_states'[i].action = NextOnExpiry(mole_states[i].action)
               /\ mole_states'[i].start = clock'
          ELSE mole_states'[i] = mole_states[i]]_vars

\* A Tick just read the clock exactly at the end of one mole's first stay
\* beneath, which stays beneath, while another mole, whose stay had ended a
\* second earlier, went up only now.
C7_Witness ==
  /\ handled.type = "Tick"
  /\ handled_in = "in_game"
  /\ \E i \in Moles :
       /\ mole_states[i].action = "LINGERING_BENEATH"
       /\ mole_states[i].start = game_start
       /\ mole_states[i].end = now
  /\ \E i \in Moles :
       /\ mole_states[i].action = "GOING_UP"
       /\ mole_states[i].start = now

C9_StartBeforeEnd ==
  /\ Cardinality(DOMAIN mole_states) = 8
  /\ \A i \in DOMAIN mole_states : mole_states[i].start <= mole_states[i].end

\* A mole was just hit and another one is beneath for the second time.
C9_Witness ==
  /\ handled.type = "ButtonDown"
  /\ mole_states[HandledMole].action = "DIZZYING_DOWN"
  /\ mole_states[HandledMole].start = now
  /\ \E i \in Moles :
       /\ mole_states[i].action = "LINGERING_BENEATH"
       /\ mole_states[i].start > game_start

\* C10: received_quit is false at construction, handling a ReceivedQuit in
\* either mode sets it, and once true it stays true under every later event.
C10_QuitIsSticky ==
  /\ received_quit = FALSE
  /\ [][/\ received_quit => received_quit'
        /\ (\/ Handling("ReceivedQuit", "in_game")
            \/ Handling("ReceivedQuit", "game_over"))
           => received_quit']_vars

\* With received_quit set, a Tick was handled after the game was over.
C10_Witness ==
  /\ received_quit
  /\ game_over
  /\ handled.type = "Tick"
  /\ handled_in = "game_over"

\* C11: game_over is false at construction, only the handling of a GameOver
\* event sets it, and once true it stays true.
C11_GameOverIsSticky ==
  /\ game_over = FALSE
  /\ [][/\ game_over => game_over'
        /\ (~game_over /\ game_over') => Handling("GameOver", "in_game")
        /\ Handling("GameOver", "in_game") => game_over']_vars

\* The GameOver a Tick had queued past game_end was just handled in the game
\* and set game_over.
C11_Witness ==
  /\ game_over
  /\ handled = GameOver
  /\ handled_in = "in_game"
  /\ now > game_end
  /\ our_event_queue = <<>>

\* C12: mole_states has exactly 8 entries in every reachable state, and
\* BUTTON_TO_MOLE maps the 8 buttons one-to-one onto the indices 0..7.
C12_EightMolesEightButtons ==
  /\ DOMAIN mole_states = 0 .. 7
  /\ Cardinality(DOMAIN mole_states) = 8
  /\ Cardinality(Button) = 8
  /\ DOMAIN BUTTON_TO_MOLE = Button
  /\ {BUTTON_TO_MOLE[b] : b \in Button} = DOMAIN mole_states
  /\ \A a, b \in Button : BUTTON_TO_MOLE[a] = BUTTON_TO_MOLE[b] => a = b

\* Moles have been hit and missed, and have gone beneath again.
C12_Witness ==
  /\ score >= 1
  /\ misses >= 7
  /\ \A i \in 0 .. 7 : mole_states[i].start > game_start

\* C13: only a Tick handled while game_over is false changes state.now, and
\* it never decreases it (the clock readings do not decrease); no event
\* changes game_start or game_end.
C13_OnlyTickMovesNow ==
  [][/\ now' # now => (Handling("Tick", "in_game") /\ ~game_over)
     /\ now' >= now
     /\ UNCHANGED <<game_start, game_end>>]_vars

\* state.now has advanced, and a ButtonDown and a Tick handled after the game
\* was over did not move it.
C13_Witness ==
  /\ now > game_start
  /\ now = clock
  /\ game_over
  /\ handled = Tick
  /\ handled_in = "game_over"
  /\ game_start = 0
  /\ game_end = MaxGameEnd

\* C14: a fresh State has score = 0, misses = 0, both flags false,
\* now = game_start and 8 moles LINGERING_BENEATH with start = game_start and
\* end in [game_start + 2 s, game_start + 15 s); a Tick handled at
\* now = game_start moves no mole and leaves game_over false.
C14_FreshState ==
  /\ score = 0
  /\ misses = 0
  /\ received_quit = FALSE
  /\ game_over = FALSE
  /\ now = game_start
  /\ game_start <= game_end
  /\ \A i \in 0 .. 7 :
       /\ mole_states[i].action = "LINGERING_BENEATH"
       /\ mole_states[i].start = game_start
       /\ mole_states[i].end >= game_start + 8
       /\ mole_states[i].end < game_start + 60
  /\ [][(/\ Handling("Tick", "in_game")
         /\ clock' = game_start)
        => (/\ mole_states' = mole_states
            /\ game_over' = FALSE
            /\ our_event_queue' = Tail(our_event_queue)
            /\ UNCHANGED <<score, misses, received_quit>>)]_vars

\* A Tick was just handled at now = game_start in a round that ends at
\* game_start: every mole is as constructed, no GameOver is queued.
C14_Witness ==
  /\ handled = Tick
  /\ handled_in = "in_game"
  /\ now = game_start
  /\ game_end = game_start
  /\ ~game_over
  /\ our_event_queue = <<>>
  /\ \A i \in Moles : mole_states[i].action = "LINGERING_BENEATH"
  /\ \E i \in Moles : mole_states[i].end > game_start + 8

\* C15: handle() on a non-empty queue removes exactly the front event and
\* appends at most a GameOver at the tail, behind the events already queued;
\* the frame loop appends at the tail; so events are handled in the order of
\* their appending. handle() on an empty queue changes neither queue nor state.
C15_QueueIsFifo ==
  [][/\ HandlingAny
        => \/ our_event_queue' = Tail(our_event_queue)
           \/ /\ our_event_queue' = Append(Tail(our_event_queue), GameOver)
              /\ Handling("Tick", "in_game")
     /\ (our_event_queue = <<>> /\ handled_in' \in {"in_game", "game_over"})
        => UNCHANGED <<state_vars, our_event_queue>>
     /\ \/ HandlingAny
        \/ our_event_queue = <<>> /\ handled_in' \in {"in_game", "game_over"}
        \/ /\ Len(our_event_queue') = Len(our_event_queue) + 1
           /\ SubSeq(our_event_queue', 1, Len(our_event_queue)) = our_event_queue
           /\ UNCHANGED state_vars]_vars

\* A ReceivedQuit was just handled in the game with a ButtonDown queued
\* behind it, which is now at the front.
C15_Witness ==
  /\ handled = ReceivedQuit
  /\ handled_in = "in_game"
  /\ received_quit
  /\ Len(our_event_queue) = 1
  /\ our_event_queue[1].type = "ButtonDown"

(* ------------------------ claims on the frame loop -------------------- *)

\* The number of Tick events in a queue.
Ticks(queue) == Cardinality({k \in 1 .. Len(queue) : queue[k] = Tick})

\* C16: in the frame loop every frame appends exactly one Tick, behind all
\* input events of the frame, and render() is called with an empty queue
\* only, the GameOver a Tick appended in that drain handled as well.
C16_DrainBeforeRender ==
  /\ [](pc = "render" => our_event_queue = <<>>)
  /\ [][(pc = "while" /\ pc' = "drain")
        => (/\ our_event_queue = <<>>
            /\ Len(our_event_queue') >= 1
            /\ our_event_queue'[Len(our_event_queue')] = Tick
            /\ Ticks(our_event_queue') = 1)]_vars

\* render() is about to be called after a drain in which the Tick read the
\* clock past game_end and the GameOver it appended was handled.
C16_Witness ==
  /\ pc = "render"
  /\ our_event_queue = <<>>
  /\ handled = GameOver
  /\ handled_in = "in_game"
  /\ game_over
  /\ now > game_end
  /\ score >= 1

\* C17: a ReceivedQuit does not end the drain: handling it only pops it, the
\* events behind it are handled by the usual rules, the drain ends on an empty
\* queue only, render() runs once for the frame, and then the loop ends
\* without another frame.
C17_QuitIsCooperative ==
  /\ [][/\ (\/ Handling("ReceivedQuit", "in_game")
            \/ Handling("ReceivedQuit", "game_over"))
           => (/\ received_quit'
               /\ our_event_queue' = Tail(our_event_queue)
               /\ pc' = pc)
        /\ (received_quit /\ pc = "drain" /\ our_event_queue # <<>>)
           => (pc' = "drain" /\ HandlingAny)
        /\ (/\ received_quit
            /\ ~game_over
            /\ Handling("ButtonDown", "in_game")
            /\ mole_states[FrontMole].action = "LOOKING_AROUND")
           => score' = score + 1
        /\ (received_quit /\ pc = "drain" /\ our_event_queue = <<>>)
           => pc' = "render"
        /\ (received_quit /\ pc = "render")
           => (screen = "NONE" /\ screen' = "quitting" /\ pc' = "while")
        /\ (received_quit /\ pc = "while")
           => (/\ pc' = "done"
               /\ UNCHANGED <<state_vars, our_event_queue, screen>>)]_vars
  /\ [](pc = "done" => (received_quit /\ our_event_queue = <<>> /\ screen = "quitting"))

\* In the frame of the ReceivedQuit the ButtonDown queued behind it has just
\* hit its mole, and the Tick of the frame is still to be handled.
C17_Witness ==
  /\ pc = "drain"
  /\ received_quit
  /\ handled.type = "ButtonDown"
  /\ handled_in = "in_game"
  /\ mole_states[HandledMole].action = "DIZZYING_DOWN"
  /\ score = 1
  /\ our_event_queue = <<Tick>>

\* C18: handle() chooses the mode by the game_over flag at each event: a
\* ButtonDown or Tick handled once game_over is set runs in game-over mode
\* and changes nothing, whatever the moles are, also when the GameOver was
\* handled earlier in the same drain.
C18_ModePerEvent ==
  [][/\ HandlingAny
        => handled_in' = IF game_over THEN "game_over" ELSE "in_game"
     /\ (/\ game_over
         /\ HandlingAny
         /\ Head(our_event_queue).type \in {"ButtonDown", "Tick"})
        => (/\ handled_in' = "game_over"
            /\ our_event_queue' = Tail(our_event_queue)
            /\ UNCHANGED <<state_vars, clock>>)]_vars

\* A Tick was just handled in game-over mode although a mole that is
\* LOOKING_AROUND has expired, with an event still queued behind it.
C18_Witness ==
  /\ game_over
  /\ handled = Tick
  /\ handled_in = "game_over"
  /\ our_event_queue # <<>>
  /\ misses = 0
  /\ \E i \in Moles :
       /\ mole_states[i].action = "LOOKING_AROUND"
       /\ now > mole_states[i].end

\* C19: render() draws the quitting screen whenever received_quit is set,
\* else the game-over screen whenever game_over is set, else the game; it
\* changes neither the state nor the queue.
C19_RenderPriority ==
  [][(pc = "render" /\ pc' # "render")
     => (/\ received_quit => screen' = "quitting"
         /\ (~received_quit /\ game_over) => screen' = "game_over"
         /\ (~received_quit /\ ~game_over) => screen' = "game"
         /\ UNCHANGED <<state_vars, our_event_queue>>)]_vars

\* The quitting screen was drawn with game_over set as well.
C19_Witness ==
  /\ pc = "while"
  /\ screen = "quitting"
  /\ received_quit
  /\ game_over

\* The number of images of each action the claim names.
C20_FrameCount(action) ==
  CASE action = "LINGERING_BENEATH" -> 1
    [] action = "GOING_UP" -> 6
    [] action = "LOOKING_AROUND" -> 2
    [] action = "GOING_DOWN" -> 6
    [] action = "DIZZYING_DOWN" -> 6

C21_DivisorsNonZero ==
  /\ \A i \in Moles : mole_states[i].end - mole_states[i].start > 0
  /\ (pc = "render" /\ ~received_quit /\ ~game_over)
     => game_end - game_start > 0

\* The largest number of calls of handle() that a queue can still take: one
\* for every event and one more for the GameOver a Tick may append.
C22_CallsLeft(queue, over) == Len(queue) + (IF over THEN 0 ELSE Ticks(queue))

\* C22: every drain terminates, within 2n calls of handle() for a queue of
\* n events: handle() can always be called on a queue that holds an event,
\* every call pops one event and appends at most one, only a Tick handled
\* with game_over false appends, and what it appends is a GameOver, which
\* appends nothing; so every call lowers the number of calls left, which is
\* at most 2n and is 0 for the empty queue only.
C22_DrainTerminates ==
  /\ [][HandlingAny
        => (/\ C22_CallsLeft(our_event_queue', game_over')
                 <= C22_CallsLeft(our_event_queue, game_over) - 1
            /\ C22_CallsLeft(our_event_queue, game_over) <= 2 * Len(our_event_queue)
            /\ Len(our_event_queue') <= Len(our_event_queue)
            /\ Len(our_event_queue') = Len(our_event_queue)
               => (/\ Handling("Tick", "in_game")
                   /\ ~game_over
                   /\ our_event_queue' = Append(Tail(our_event_queue), GameOver))
            /\ Head(our_event_queue) = GameOver
               => our_event_queue' = Tail(our_event_queue))]_vars
  /\ [](our_event_queue # <<>> => ENABLED Handle)

\* Two Ticks read the clock past game_end and each appended a GameOver; the
\* second GameOver was just handled, in game-over mode, and the queue is
\* empty: four calls of handle() for two queued events.
C22_Witness ==
  /\ our_event_queue = <<>>
  /\ handled = GameOver
  /\ handled_in = "game_over"
  /\ game_over
  /\ ~received_quit
  /\ score = 0
  /\ now > game_end

\* The moles that are LOOKING_AROUND now and after the step.
C23_Open == {i \in Moles : mole_states[i].action = "LOOKING_AROUND"}

C23_OpenAfter == {i \in Moles : mole_states'[i].action = "LOOKING_AROUND"}

\* The moles that this step moves between the two given actions.
C23_Moved(from, to) ==
  {i \in Moles : mole_states[i].action = from /\ mole_states'[i].action = to}

\* C23: score + misses + (number of moles LOOKING_AROUND) equals the number
\* of GOING_UP -> LOOKING_AROUND transitions since construction: the sum is 0
\* after construction and every step that changes the moles, score or misses
\* adds to it exactly the moles the step exposes; a mole leaves
\* LOOKING_AROUND only as one hit (to DIZZYING_DOWN, score + 1) or as one miss
\* (to GOING_DOWN, misses + 1).
C23_ExposureAccounting ==
  /\ score + misses + Cardinality(C23_Open) = 0
  /\ [][\/ UNCHANGED <<mole_states, score, misses>>
        \/ LET exposed == C23_Moved("GOING_UP", "LOOKING_AROUND")
               hit == C23_Moved("LOOKING_AROUND", "DIZZYING_DOWN")
               missed == C23_Moved("LOOKING_AROUND", "GOING_DOWN")
           IN /\ (score' + misses' + Cardinality(C23_OpenAfter))
                   - (score + misses + Cardinality(C23_Open))
                 = Cardinality(exposed)
              /\ C23_OpenAfter \ C23_Open = exposed
              /\ C23_Open \ C23_OpenAfter = hit \cup missed
              /\ score' - score = Cardinality(hit)
              /\ misses' - misses = Cardinality(missed)]_vars

\* One exposure was hit, seven were missed, and the mole that was hit is
\* exposed again: nine exposures, one of them open.
C23_Witness ==
  /\ score = 1
  /\ misses = 7
  /\ Cardinality(C23_Open) = 1
  /\ handled = Tick
  /\ handled_in = "in_game"
  /\ \E i \in C23_Open : mole_states[i].start = now

C25_GameOvers(queue) == Cardinality({k \in 1 .. Len(queue) : queue[k] = GameOver})

\* C25: in the frame loop no ButtonDown is handled between a Tick that read
\* the clock past game_end and the GameOver it appended: once now > game_end,
\* score, misses and the moles never change, and at most one GameOver is
\* appended in the whole round.
C25_NothingAfterTimeUp ==
  /\ [](/\ (now > game_end /\ ~game_over) => our_event_queue = <<GameOver>>
        /\ C25_GameOvers(our_event_queue) <= 1
        /\ C25_GameOvers(our_event_queue) = 1 => (now > game_end /\ ~game_over))
  /\ [][/\ now > game_end
           => (/\ UNCHANGED <<score, misses, mole_states>>
               /\ now' > game_end
               /\ C25_GameOvers(our_event_queue') <= C25_GameOvers(our_event_queue)
               /\ ~Handling("ButtonDown", "in_game")
               /\ ~Handling("Tick", "in_game"))
        /\ C25_GameOvers(our_event_queue') > C25_GameOvers(our_event_queue)
           => (/\ Handling("Tick", "in_game")
               /\ now <= game_end
               /\ now' > game_end
               /\ our_event_queue' = <<GameOver>>)]_vars

\* After a hit earlier in the round, the last Tick of the round has just
\* read the clock past game_end; the GameOver it appended is the only event
\* in the queue, and a mole is still LOOKING_AROUND.
C25_Witness ==
  /\ pc = "drain"
  /\ handled = Tick
  /\ handled_in = "in_game"
  /\ now > game_end
  /\ ~game_over
  /\ our_event_queue = <<GameOver>>
  /\ score >= 1
  /\ \E i \in Moles : mole_states[i].action = "LOOKING_AROUND"

\* C26: once a Tick of the frame loop has read the clock past game_end,
\* game_over becomes true, and it does so in the drain of that Tick: the
\* GameOver is the next event handled, no frame is rendered in between, and
\* the in-game screen is never rendered with now > game_end.
C26_RoundEnds ==
  /\ (clock > game_end) ~> game_over
  /\ [](/\ (now > game_end /\ ~game_over)
           => (pc = "drain" /\ our_event_queue = <<GameOver>>)
        /\ (pc = "render" /\ now > game_end) => game_over
        /\ screen = "game" => now <= game_end)
  /\ [][(Handling("Tick", "in_game") /\ clock' > game_end)
        => (/\ now' = clock'
            /\ pc' = "drain"
            /\ our_event_queue' = <<GameOver>>)]_vars

\* Without a ReceivedQuit, the frame whose Tick read the clock past game_end
\* has handled the GameOver and has rendered the game-over screen.
C26_Witness ==
  /\ pc = "while"
  /\ screen = "game_over"
  /\ ~received_quit
  /\ game_over
  /\ handled = GameOver
  /\ handled_in = "in_game"
  /\ clock > game_end
  /\ now = clock

====
